---- MODULE Spec2Model ----
(***************************************************************************)
(* Interview practice session of src/app.py: the question generator, the   *)
(* answer evaluator, the score extractor and the session controller that   *)
(* the Streamlit script runs once per user interaction.                    *)
(*                                                                         *)
(* A Python str is a TLA+ string, read character by character (Len,        *)
(* SubSeq), so that strip(), the substring test and the regular expression *)
(* are computed on the characters.  A float is the exact decimal it was    *)
(* parsed from.                                                            *)
(*                                                                         *)
(* last, run and changes observe the run of the program and are read by no *)
(* handler: last names the interaction just handled, run counts the        *)
(* submits and skips since Start Practice began a run and notes whether    *)
(* the slider (steady) and the mode and domain (fixed) were left alone     *)
(* since, changes counts the sidebar changes, which MaxChanges caps.       *)
(***************************************************************************)
EXTENDS Integers, Sequences, FiniteSets, TLC

VARIABLES
    question,       \* st.session_state.question: None or the pending question
    asked,          \* st.session_state.asked
    score,          \* st.session_state.score: the list of result dicts
    role,           \* sidebar selectbox "Your Role"
    domain,         \* sidebar text_input "Specific Domain (optional)"
    mode,           \* sidebar radio "Question Type"
    num_questions,  \* sidebar slider "Number of Questions"
    last,           \* observation: the interaction the last script run handled
    run,            \* observation: what happened since the last effective start
    changes         \* observation: number of sidebar changes made so far

vars == <<question, asked, score, role, domain, mode, num_questions, last, run, changes>>
session == <<question, asked, score>>
settings == <<role, domain, mode, num_questions>>

----------------------------------------------------------------------------
(* Bounds and program constants *)

MaxChanges == 2             \* sidebar changes explored in one session
MaxAskCount == 7            \* largest count the question generator is driven with

SliderMin == 1
SliderMax == 5
SliderDefault == 3
DefaultScore == 7
NumTemplates == 5

None == "None"              \* Python None; no question text is equal to it

Roles == {"Software Engineer", "Product Manager", "Data Analyst", "Designer"}
Modes == {"Technical", "Behavioral", "System Design"}

\* Values the user may type into the domain box.
DomainInputs == { "", "Go" }

\* Values the user may have in the answer box when pressing Submit.
AnswerInputs == { "", " \n", "I am diligent." }

\* Texts the external model may answer with.
ResponseTexts == { "Score: 9/10\nClear." }

\* Outcomes of the external model call: a response text, or an exception.
ModelOutcomes == [ok : {TRUE}, text : ResponseTexts] \cup {[ok |-> FALSE, text |-> ""]}

----------------------------------------------------------------------------
(* Text helpers (Python str operations) *)

\* text[i], 1-based
Char(text, i) == SubSeq(text, i, i)

IsSpace(c) == c \in {" ", "\t", "\n", "\r", "\f"}
IsDigit(c) == c \in {"0", "1", "2", "3", "4", "5", "6", "7", "8", "9"}

\* Variant: the test ignores the case of a leading D.
Contains_any_case(text, sub) ==
    \E i \in 1..(Len(text) - Len(sub) + 1) :
        \/ SubSeq(text, i, i + Len(sub) - 1) = sub
        \/ "d" \o SubSeq(text, i + 1, i + Len(sub) - 1) = sub /\ Char(text, i) = "D"

\* sub in text
Contains(text, sub) ==
    \E i \in 1..(Len(text) - Len(sub) + 1) : SubSeq(text, i, i + Len(sub) - 1) = sub

\* Variant: only spaces are stripped, so a tab or a newline counts as an answer.
Strip_spaces_only(text) ==
    IF \A i \in 1..Len(text) : Char(text, i) = " " THEN "" ELSE text

\* text.strip()
Strip(text) ==
    LET keep == {i \in 1..Len(text) : ~IsSpace(Char(text, i))}
    IN  IF keep = {} THEN ""
        ELSE SubSeq(text, CHOOSE i \in keep : \A j \in keep : i <= j,
                          CHOOSE i \in keep : \A j \in keep : i >= j)

----------------------------------------------------------------------------
(* Question generator *)

question_templates(d) ==
    [m \in Modes |->
        CASE m = "Technical" ->
            << IF d # "" THEN "What is your experience with " \o d \o "?"
                           ELSE "What programming languages do you know best?",
               IF d # "" THEN "Describe a simple " \o d \o " project you've worked on."
                           ELSE "What's your favorite tech tool and why?",
               IF d # "" THEN "How would you explain " \o d \o " to a beginner?"
                           ELSE "What's your debugging process?",
               IF d # "" THEN "What interests you about " \o d \o "?"
                           ELSE "How do you keep your technical skills updated?",
               "Tell me about your most recent technical project." >>
          [] m = "Behavioral" ->
            << "Tell me about yourself.",
               "What's your greatest professional strength?",
               "Why do you want this job?",
               "How do you handle stress?",
               "Describe your ideal work environment." >>
          [] m = "System Design" ->
            << "How would you design a simple URL shortener?",
               "Explain how you would build a basic chat application.",
               "How would you design a simple file storage system?",
               "Describe a basic e-commerce checkout flow.",
               "How would you approach designing a simple API?" >> ]

\* Variant: the index is taken one past the count.
question_index_off_by_one(d, m, a) == (a + 1) % Len(question_templates(d)[m])

\* Variant: the index wraps one template early.
question_index_wraps_early(d, m, a) == a % (Len(question_templates(d)[m]) - 1)

\* Variant: past the last template the index stays at the last one.
question_index_clamped(d, m, a) ==
    IF a < Len(question_templates(d)[m]) THEN a ELSE Len(question_templates(d)[m]) - 1

\* The index chosen from st.session_state.asked (Python lists are 0-based).
question_index(d, m, a) == a % Len(question_templates(d)[m])

\* generate_question(role, domain, mode), with a the value of
\* st.session_state.asked that the function reads.
generate_question(r, d, m, a) ==
    LET q == question_templates(d)[m][question_index(d, m, a) + 1]
    IN  IF d # "" /\ ~Contains(q, "domain")
        THEN q \o " (Related to " \o d \o ")"
        ELSE q

----------------------------------------------------------------------------
(* Score extractor *)

\* Variant: the pattern is matched case-sensitively.
Lower_case_sensitive(c) == c

\* re.IGNORECASE on the letters the pattern uses.
Lower(c) ==
    CASE c = "S" -> "s" [] c = "C" -> "c" [] c = "O" -> "o" [] c = "R" -> "r"
      [] c = "E" -> "e" [] c = "U" -> "u" [] c = "T" -> "t" [] c = "F" -> "f"
      [] OTHER -> c

\* The literal lit (lower case) matches text at position i.
MatchLit(text, i, lit) ==
    /\ i + Len(lit) - 1 <= Len(text)
    /\ \A k \in 1..Len(lit) : Lower(Char(text, i + k - 1)) = Char(lit, k)

\* \s* and \d+ are greedy: the first position from i on that does not match.
RECURSIVE SkipWhile(_, _, _)
SkipWhile(text, i, isDigits) ==
    IF i <= Len(text) /\ (IF isDigits THEN IsDigit(Char(text, i)) ELSE IsSpace(Char(text, i)))
    THEN SkipWhile(text, i + 1, isDigits)
    ELSE i

\* Score:\s*(\d+(?:\.\d+)?)\s*(?:\/|\s*out\s*of\s*)\s*10 tried at position s:
\* [ok, from, to], the span of group 1.  Every way the pattern can match at s
\* gives the longest run of digits this computes, since what follows the group
\* is never a digit or a dot.
MatchAt(text, s) ==
    IF ~MatchLit(text, s, "score:") THEN [ok |-> FALSE, from |-> 0, to |-> 0]
    ELSE
    LET p1 == SkipWhile(text, s + 6, FALSE)
        d1 == SkipWhile(text, p1, TRUE)
        d2 == IF d1 <= Len(text) /\ Char(text, d1) = "." THEN SkipWhile(text, d1 + 1, TRUE) ELSE d1
        g  == IF d2 > d1 + 1 THEN d2 ELSE d1
        p3 == SkipWhile(text, g, FALSE)
        o1 == SkipWhile(text, p3 + 3, FALSE)
        p4 == IF MatchLit(text, p3, "/") THEN p3 + 1
              ELSE IF MatchLit(text, p3, "out") /\ MatchLit(text, o1, "of")
                   THEN o1 + 2
                   ELSE 0
        p5 == SkipWhile(text, p4, FALSE)
    IN  [ok   |-> d1 > p1 /\ p4 > 0 /\ MatchLit(text, p5, "10"),
         from |-> p1,
         to   |-> g - 1]

DigitValue(c) ==
    CASE c = "0" -> 0 [] c = "1" -> 1 [] c = "2" -> 2 [] c = "3" -> 3 [] c = "4" -> 4
      [] c = "5" -> 5 [] c = "6" -> 6 [] c = "7" -> 7 [] c = "8" -> 8 [] c = "9" -> 9

RECURSIVE DigitsValue(_)
DigitsValue(ds) ==
    IF ds = "" THEN 0
    ELSE 10 * DigitsValue(SubSeq(ds, 1, Len(ds) - 1)) + DigitValue(Char(ds, Len(ds)))

\* A float as an exact decimal: m / 10^e, with m not a multiple of 10 unless e = 0.
RECURSIVE Decimal(_, _)
Decimal(m, e) ==
    IF e > 0 /\ m % 10 = 0 THEN Decimal(m \div 10, e - 1) ELSE [m |-> m, e |-> e]

\* float(numeral) for a numeral digits or digits.digits
ToFloat(numeral) ==
    LET dots == {i \in 1..Len(numeral) : Char(numeral, i) = "."}
    IN  IF dots = {} THEN Decimal(DigitsValue(numeral), 0)
        ELSE LET k == CHOOSE i \in dots : TRUE
             IN  Decimal(DigitsValue(SubSeq(numeral, 1, k - 1) \o SubSeq(numeral, k + 1, Len(numeral))),
                         Len(numeral) - k)

\* re.search: the match at the first position from s on where the pattern matches.
RECURSIVE Search(_, _)
Search(text, s) ==
    IF s > Len(text) THEN [ok |-> FALSE, from |-> 0, to |-> 0]
    ELSE IF MatchAt(text, s).ok THEN MatchAt(text, s)
    ELSE Search(text, s + 1)

extract_score(feedback) ==
    LET match == Search(feedback, 1)
    IN  IF match.ok
        THEN ToFloat(SubSeq(feedback, match.from, match.to))
        ELSE Decimal(DefaultScore, 0)

----------------------------------------------------------------------------
(* Answer evaluator *)

FallbackFeedback ==
    "Score: 7/10\nGood answer! Consider adding a bit more detail about your specific experiences."

\* Variant: a failure is reported in the feedback instead of being masked.
evaluate_answer_reports_failure(user_answer, q, m, outcome) ==
    IF outcome.ok THEN outcome.text ELSE "Score: 0/10\nThe answer could not be evaluated."

\* evaluate_answer(user_answer, question, mode); outcome is what the external
\* model call does with the prompt: it returns a text or it raises.
evaluate_answer(user_answer, q, m, outcome) ==
    IF outcome.ok THEN outcome.text ELSE FallbackFeedback

----------------------------------------------------------------------------
(* Session controller: one action per user interaction, each the whole      *)
(* script run (and the rerun it requests) that handles it.                  *)

\* The session state after the initialisation block has filled in a missing key.
session_init == [question |-> None, asked |-> 0, score |-> <<>>]

\* Python truthiness of st.session_state.question
Truthy(q) == q # None /\ q # ""

\* The dict appended for a submitted answer.
result(q, user_answer, feedback) ==
    [question |-> q, answer |-> user_answer, feedback |-> feedback,
     score |-> extract_score(feedback)]

\* Variant: the next question is generated from the count before the increment.
next_or_finish_stale_count(a) ==
    IF a < num_questions THEN generate_question(role, domain, mode, a - 1) ELSE None

\* Variant: the comparison admits one question more.
next_or_finish_one_more(a) ==
    IF a <= num_questions THEN generate_question(role, domain, mode, a) ELSE None

\* "Next question or finish", with a the incremented st.session_state.asked.
next_or_finish(a) ==
    IF a < num_questions THEN generate_question(role, domain, mode, a) ELSE None

\* Variant: the results block is guarded by the count alone.
results_shown_on_count == asked >= num_questions

\* The results block is rendered, and with it the Practice Again button.
results_shown == asked >= num_questions /\ score # <<>>

RECURSIVE Pow10(_)
Pow10(e) == IF e = 0 THEN 1 ELSE 10 * Pow10(e - 1)

RECURSIVE Gcd(_, _)
Gcd(a, b) == IF b = 0 THEN a ELSE Gcd(b, a % b)

\* A float quotient as the exact fraction n / d in lowest terms.
Fraction(n, d) == [num |-> n \div Gcd(n, d), den |-> d \div Gcd(n, d)]

\* scores = [item["score"] for item in st.session_state.score]
scores_of(items) == [i \in 1..Len(items) |-> items[i].score]

\* sum(scores), as the decimal [m, e]
RECURSIVE sum(_)
sum(scores) ==
    IF scores = <<>> THEN Decimal(0, 0)
    ELSE LET rest == sum(SubSeq(scores, 1, Len(scores) - 1))
             x    == scores[Len(scores)]
             e    == IF rest.e > x.e THEN rest.e ELSE x.e
         IN  Decimal(rest.m * Pow10(e - rest.e) + x.m * Pow10(e - x.e), e)

\* avg_score = sum(scores) / len(scores) if scores else 0
avg_score(scores) ==
    IF scores # <<>>
    THEN Fraction(sum(scores).m, Pow10(sum(scores).e) * Len(scores))
    ELSE Fraction(0, 1)

\* The question block is rendered, and with it the Submit and Skip buttons.
question_shown == Truthy(question)

Pre == [asked |-> asked, n |-> Len(score), pending |-> question # None]
Seen(kind, user_answer, eval) ==
    [kind |-> kind, answer |-> user_answer, eval |-> eval, pre |-> Pre]
NoRun == [active |-> FALSE, subs |-> 0, skips |-> 0, steady |-> TRUE, fixed |-> TRUE]

Init ==
    /\ question = session_init.question
    /\ asked = session_init.asked
    /\ score = session_init.score
    /\ role = "Software Engineer"
    /\ domain = ""
    /\ mode = "Technical"
    /\ num_questions = SliderDefault
    /\ last = [kind |-> "init", answer |-> "", eval |-> "none",
               pre |-> [asked |-> 0, n |-> 0, pending |-> FALSE]]
    /\ run = NoRun
    /\ changes = 0

\* Variant: a new run does not reset the count.
StartPractice_keeps_asked ==
    /\ IF question = None
       THEN /\ asked' = asked
            /\ score' = <<>>
            /\ question' = generate_question(role, domain, mode, asked)
            /\ run' = [active |-> TRUE, subs |-> 0, skips |-> 0, steady |-> TRUE, fixed |-> TRUE]
       ELSE UNCHANGED <<session, run>>
    /\ last' = Seen("start", "", "none")
    /\ UNCHANGED <<settings, changes>>

\* Variant: a new run does not clear the results of the previous one.
StartPractice_keeps_score ==
    /\ IF question = None
       THEN /\ asked' = 0
            /\ score' = score
            /\ question' = generate_question(role, domain, mode, 0)
            /\ run' = [active |-> TRUE, subs |-> 0, skips |-> 0, steady |-> TRUE, fixed |-> TRUE]
       ELSE UNCHANGED <<session, run>>
    /\ last' = Seen("start", "", "none")
    /\ UNCHANGED <<settings, changes>>

\* "Start Practice" pressed.
StartPractice ==
    /\ IF question = None
       THEN /\ asked' = 0
            /\ score' = <<>>
            /\ question' = generate_question(role, domain, mode, 0)
            /\ run' = [active |-> TRUE, subs |-> 0, skips |-> 0, steady |-> TRUE, fixed |-> TRUE]
       ELSE UNCHANGED <<session, run>>
    /\ last' = Seen("start", "", "none")
    /\ UNCHANGED <<settings, changes>>

\* Variant: the new result is inserted at the front of the list.
Submit_inserts_first ==
    /\ question_shown
    /\ \E user_answer \in AnswerInputs :
         IF Strip(user_answer) = ""
         THEN /\ last' = Seen("submit", user_answer, "none")
              /\ UNCHANGED <<session, run>>
         ELSE \E outcome \in ModelOutcomes :
                LET feedback == evaluate_answer(user_answer, question, mode, outcome)
                IN  /\ score' = <<result(question, user_answer, feedback)>> \o score
                    /\ asked' = asked + 1
                    /\ question' = next_or_finish(asked + 1)
                    /\ last' = Seen("submit", user_answer, IF outcome.ok THEN "ok" ELSE "failed")
                    /\ run' = [run EXCEPT !.subs = @ + 1]
    /\ UNCHANGED <<settings, changes>>

\* "Submit" pressed with user_answer in the answer box.
Submit ==
    /\ question_shown
    /\ \E user_answer \in AnswerInputs :
         IF Strip(user_answer) = ""
         THEN /\ last' = Seen("submit", user_answer, "none")
              /\ UNCHANGED <<session, run>>
         ELSE \E outcome \in ModelOutcomes :
                LET feedback == evaluate_answer(user_answer, question, mode, outcome)
                IN  /\ score' = Append(score, result(question, user_answer, feedback))
                    /\ asked' = asked + 1
                    /\ question' = next_or_finish(asked + 1)
                    /\ last' = Seen("submit", user_answer, IF outcome.ok THEN "ok" ELSE "failed")
                    /\ run' = [run EXCEPT !.subs = @ + 1]
    /\ UNCHANGED <<settings, changes>>

\* Variant: a skipped question is recorded as an empty result.
Skip_records_result ==
    /\ question_shown
    /\ asked' = asked + 1
    /\ score' = Append(score, result(question, "", ""))
    /\ question' = next_or_finish(asked + 1)
    /\ last' = Seen("skip", "", "none")
    /\ run' = [run EXCEPT !.skips = @ + 1]
    /\ UNCHANGED <<settings, changes>>

\* "Skip" pressed.
Skip ==
    /\ question_shown
    /\ asked' = asked + 1
    /\ question' = next_or_finish(asked + 1)
    /\ last' = Seen("skip", "", "none")
    /\ run' = [run EXCEPT !.skips = @ + 1]
    /\ UNCHANGED <<score, settings, changes>>

\* Variant: only the question and the count are removed.
clear_and_rerun_keeps_score ==
    /\ question' = session_init.question
    /\ asked' = session_init.asked
    /\ score' = score

\* st.session_state.clear() and the rerun that initialises the missing keys.
\* The sidebar widgets belong to the UI framework: the model leaves their values
\* as they are, and any other value is one sidebar change away.
clear_and_rerun ==
    /\ question' = session_init.question
    /\ asked' = session_init.asked
    /\ score' = session_init.score

\* Sidebar "Reset" pressed.
Reset ==
    /\ clear_and_rerun
    /\ last' = Seen("reset", "", "none")
    /\ run' = NoRun
    /\ UNCHANGED <<settings, changes>>

\* "Practice Again" pressed.
PracticeAgain ==
    /\ results_shown
    /\ clear_and_rerun
    /\ last' = Seen("again", "", "none")
    /\ run' = NoRun
    /\ UNCHANGED <<settings, changes>>

\* A sidebar widget is changed: the script reruns with no button pressed.
ChangeRole ==
    /\ changes < MaxChanges
    /\ \E r \in Roles \ {role} : role' = r
    /\ last' = Seen("role", "", "none")
    /\ changes' = changes + 1
    /\ UNCHANGED <<session, domain, mode, num_questions, run>>

ChangeDomain ==
    /\ changes < MaxChanges
    /\ \E d \in DomainInputs \ {domain} : domain' = d
    /\ last' = Seen("domain", "", "none")
    /\ changes' = changes + 1
    /\ run' = [run EXCEPT !.fixed = IF run.active THEN FALSE ELSE @]
    /\ UNCHANGED <<session, role, mode, num_questions>>

\* Variant: the pending question is generated again for the new mode.
ChangeMode_regenerates ==
    /\ changes < MaxChanges
    /\ \E m \in Modes \ {mode} :
          /\ mode' = m
          /\ question' = IF question = None THEN None
                         ELSE generate_question(role, domain, m, asked)
    /\ last' = Seen("mode", "", "none")
    /\ changes' = changes + 1
    /\ run' = [run EXCEPT !.fixed = IF run.active THEN FALSE ELSE @]
    /\ UNCHANGED <<asked, score, role, domain, num_questions>>

ChangeMode ==
    /\ changes < MaxChanges
    /\ \E m \in Modes \ {mode} : mode' = m
    /\ last' = Seen("mode", "", "none")
    /\ changes' = changes + 1
    /\ run' = [run EXCEPT !.fixed = IF run.active THEN FALSE ELSE @]
    /\ UNCHANGED <<session, role, domain, num_questions>>

ChangeNumQuestions ==
    /\ changes < MaxChanges
    /\ \E n \in (SliderMin..SliderMax) \ {num_questions} : num_questions' = n
    /\ last' = Seen("slider", "", "none")
    /\ changes' = changes + 1
    /\ run' = [run EXCEPT !.steady = IF run.active THEN FALSE ELSE @]
    /\ UNCHANGED <<session, role, domain, mode>>

Next ==
    \/ StartPractice
    \/ Submit
    \/ Skip
    \/ Reset
    \/ PracticeAgain
    \/ ChangeRole
    \/ ChangeDomain
    \/ ChangeMode
    \/ ChangeNumQuestions

Spec == Init /\ [][Next]_vars

----------------------------------------------------------------------------
(* The question generator on its own: generate_question called for any       *)
(* settings and any value of st.session_state.asked.                         *)

\* Values of the domain box the generator is driven with.
GenDomains == DomainInputs \cup { "domain names", "Domain design" }

GenInit ==
    /\ question = None
    /\ asked = 0
    /\ score = <<>>
    /\ role \in Roles
    /\ domain \in GenDomains
    /\ mode \in Modes
    /\ num_questions = SliderDefault
    /\ last = [kind |-> "init", answer |-> "", eval |-> "none",
               pre |-> [asked |-> 0, n |-> 0, pending |-> FALSE]]
    /\ run = NoRun
    /\ changes = 0

\* st.session_state.question = generate_question(role, domain, mode)
GenCall ==
    /\ question' = generate_question(role, domain, mode, asked)
    /\ UNCHANGED <<asked, score, settings, last, run, changes>>

\* st.session_state.asked += 1
GenAdvance ==
    /\ asked < MaxAskCount
    /\ asked' = asked + 1
    /\ question' = None
    /\ UNCHANGED <<score, settings, last, run, changes>>

GenNext ==
    \/ GenCall
    \/ GenAdvance

GenSpec == GenInit /\ [][GenNext]_vars

----------------------------------------------------------------------------
(* The score extractor on its own: the Submit handler's evaluation of one    *)
(* answer, for any feedback text the external model may return.              *)

\* Feedback texts: a label, a number, a separator and a ten, with and without
\* whitespace between them, alone or inside other text.
FeedbackTexts ==
    { pre \o label \o ws1 \o num \o ws2 \o sep \o ws3 \o ten \o post :
        pre \in {"", "Great. "},
        label \in {"Score:", "score:", "SCORE:", "Score"},
        ws1 \in {"", " ", "\n"},
        num \in {"8", "10", "7.5", "3.", "", "007"},
        ws2 \in {"", " "},
        sep \in {"/", "out of", "OUT OF", "outof", "out  of", "of"},
        ws3 \in {"", " "},
        ten \in {"10", "1", "100"},
        post \in {"", " Score: 2/10"} }

ScoreInit ==
    /\ question = generate_question("Software Engineer", "", "Technical", 0)
    /\ asked = 0
    /\ score = <<>>
    /\ role = "Software Engineer"
    /\ domain = ""
    /\ mode = "Technical"
    /\ num_questions = SliderDefault
    /\ last = [kind |-> "init", answer |-> "", eval |-> "none",
               pre |-> [asked |-> 0, n |-> 0, pending |-> FALSE]]
    /\ run = NoRun
    /\ changes = 0

\* feedback = evaluate_answer(...); score = extract_score(feedback); the dict
\* with both is the one result.
ScoreAnswer ==
    /\ score = <<>>
    /\ \E text \in FeedbackTexts :
         LET feedback == evaluate_answer("I am diligent.", question, mode,
                                         [ok |-> TRUE, text |-> text])
         IN  score' = <<result(question, "I am diligent.", feedback)>>
    /\ UNCHANGED <<question, asked, settings, last, run, changes>>

\* The same with the external model call failing.
ScoreFallback ==
    /\ score = <<>>
    /\ LET feedback == evaluate_answer("I am diligent.", question, mode,
                                       [ok |-> FALSE, text |-> ""])
       IN  score' = <<result(question, "I am diligent.", feedback)>>
    /\ UNCHANGED <<question, asked, settings, last, run, changes>>

ScoreNext ==
    \/ ScoreAnswer
    \/ ScoreFallback

ScoreSpec == ScoreInit /\ [][ScoreNext]_vars

----------------------------------------------------------------------------
(* Properties *)

\* The answer is empty or consists of whitespace only.
IsBlank(text) == \A i \in 1..Len(text) : IsSpace(Char(text, i))

\* The question presented for count a under the current settings: the template
\* at index a mod 5 of the selected mode, with the domain suffix where
\* generate_question adds one.
TemplateAt(a) == question_templates(domain)[mode][(a % NumTemplates) + 1]
PresentedAt(a) ==
    IF domain = "" THEN {TemplateAt(a)}
    ELSE {TemplateAt(a), TemplateAt(a) \o " (Related to " \o domain \o ")"}

\* A run started with Start Practice has seen exactly num_questions submits of
\* a non-empty answer and skips, the slider untouched since the start.
RunPlayedOut ==
    run.active /\ run.steady /\ run.subs + run.skips = num_questions

\* C1 as stated: after num_questions submit-or-skip actions from a started run
\* the session is COMPLETE (asked = num_questions, results non-empty, question
\* cleared) and len(results) is the number of submits.
C1_Original ==
    RunPlayedOut =>
        /\ asked = num_questions
        /\ score # <<>>
        /\ question = None
        /\ Len(score) = run.subs

\* C1 as amended: after num_questions submit-or-skip actions from a started run
\* the run has ended (asked = num_questions, question cleared) and len(results)
\* is the number of submits; the results are non-empty, and the summary shown,
\* exactly when at least one of the actions was a submit.
C1_RunEnds ==
    RunPlayedOut =>
        /\ asked = num_questions
        /\ question = None
        /\ Len(score) = run.subs
        /\ (score # <<>> <=> run.subs > 0)
        /\ (results_shown <=> run.subs > 0)

C1_Witness ==
    RunPlayedOut /\ run.subs > 0 /\ run.skips > 0 /\ last.kind = "skip"

\* C2: in every reachable state asked <= num_questions, num_questions being
\* the value the slider holds at that moment.
C2_AskedWithinLimit == asked <= num_questions

\* C3: whenever asked >= num_questions and the results are non-empty (the
\* summary is shown), no question is pending.
C3_NoSummaryWhilePending ==
    (asked >= num_questions /\ score # <<>>) => question = None

\* C4: a submit of an empty or whitespace-only answer leaves asked, the
\* results and the pending question unchanged, does not call the evaluator,
\* and a question is still pending afterwards.
C4_BlankSubmit ==
    [][(last'.kind = "submit" /\ IsBlank(last'.answer)) =>
            /\ asked' = asked
            /\ score' = score
            /\ question' = question
            /\ question' # None
            /\ last'.eval = "none"]_vars

C4_Witness ==
    /\ last.kind = "submit" /\ last.answer = " \n" /\ last.eval = "none"
    /\ asked > 0 /\ score # <<>> /\ question # None

\* C5: a submit of a non-empty answer appends exactly one result (the pending
\* question, the answer, the feedback, the score extracted from the feedback),
\* adds one to asked, and then presents the question of template index
\* asked mod 5 if asked < num_questions and clears the question otherwise.
C5_Submit ==
    [][(last'.kind = "submit" /\ ~IsBlank(last'.answer)) =>
            /\ Len(score') = Len(score) + 1
            /\ SubSeq(score', 1, Len(score)) = score
            /\ LET r == score'[Len(score')]
               IN  /\ DOMAIN r = {"question", "answer", "feedback", "score"}
                   /\ r.question = question
                   /\ r.answer = last'.answer
                   /\ r.feedback \in ResponseTexts \cup {FallbackFeedback}
                   /\ r.score = extract_score(r.feedback)
            /\ asked' = asked + 1
            /\ IF asked' < num_questions
               THEN question' \in PresentedAt(asked')
               ELSE question' = None]_vars

C5_Witness ==
    /\ last.kind = "submit" /\ last.eval = "ok"
    /\ asked = 2 /\ Len(score) = 2 /\ question \in PresentedAt(2)
    /\ score[2].score = Decimal(9, 0)

\* C6: a skip adds one to asked, leaves the results as they are and does not
\* call the evaluator; then it presents the next question if
\* asked < num_questions and clears the question otherwise.
C6_Skip ==
    [][last'.kind = "skip" =>
            /\ asked' = asked + 1
            /\ score' = score
            /\ last'.eval = "none"
            /\ IF asked' < num_questions
               THEN question' \in PresentedAt(asked')
               ELSE question' = None]_vars

C6_Witness ==
    /\ last.kind = "skip" /\ last.pre.n > 0 /\ Len(score) = last.pre.n
    /\ question # None

\* C7: Reset and Practice Again lead to the state with no question, asked = 0
\* and no results, whatever the state they were pressed in.
C7_Reset ==
    [][last'.kind \in {"reset", "again"} =>
            /\ question' = None
            /\ asked' = 0
            /\ score' = <<>>]_vars

C7_Witness ==
    /\ last.kind = "reset"
    /\ last.pre.pending /\ last.pre.asked > 0 /\ last.pre.n > 0
    /\ question = None /\ asked = 0 /\ score = <<>>

\* C8: when the model call fails during a submit of a non-empty answer the
\* submit changes asked, the question and the number of results as a submit
\* with a successful evaluation does, and the appended result carries the
\* fallback feedback and the score 7.
C8_EvaluationFailure ==
    [][(last'.kind = "submit" /\ last'.eval = "failed") =>
            /\ asked' = asked + 1
            /\ Len(score') = Len(score) + 1
            /\ IF asked + 1 < num_questions
               THEN question' \in PresentedAt(asked + 1)
               ELSE question' = None
            /\ score'[Len(score')].feedback = FallbackFeedback
            /\ score'[Len(score')].score = Decimal(7, 0)]_vars

C8_Witness ==
    /\ last.kind = "submit" /\ last.eval = "failed"
    /\ score # <<>> /\ score[Len(score)].feedback = FallbackFeedback
    /\ asked = last.pre.asked + 1

\* C9: Start Practice pressed with no question pending sets asked to 0, clears
\* the results and presents the question of template index 0 of the selected
\* mode, whatever asked and the results were.
C9_Start ==
    [][(last'.kind = "start" /\ question = None) =>
            /\ asked' = 0
            /\ score' = <<>>
            /\ question' \in PresentedAt(0)]_vars

C9_Witness ==
    /\ last.kind = "start"
    /\ ~last.pre.pending /\ last.pre.asked > 0 /\ last.pre.n > 0
    /\ asked = 0 /\ score = <<>> /\ question # None

\* C10: the number of results never exceeds asked.
C10_ResultsWithinAsked == Len(score) <= asked

C10_Witness == Len(score) > 0 /\ Len(score) < asked /\ question # None

\* The step begins a run or clears the session: Start Practice with no
\* question pending, Reset, Practice Again.
ClearsResults ==
    \/ last'.kind \in {"reset", "again"}
    \/ last'.kind = "start" /\ question = None

\* C11: within a run the results are append-only and each result is kept as
\* it was created: every step that neither starts a run nor resets leaves the
\* results unchanged or extends them by one element at the end.
C11_AppendOnly ==
    [][~ClearsResults =>
            \/ score' = score
            \/ /\ Len(score') = Len(score) + 1
               /\ \A i \in 1..Len(score) : score'[i] = score[i]]_vars

C11_Witness ==
    /\ last.kind = "submit" /\ last.eval # "none"
    /\ Len(score) = 3 /\ last.pre.n = 2
    /\ score[1].question # score[2].question

\* The value the "Your Score" metric is computed from when the results block
\* is rendered.
ShownAverage == avg_score(scores_of(score))

\* total * 10^e for the scores of the results, e the largest number of
\* fractional digits among them.
MaxFractionDigits ==
    IF score = <<>> THEN 0
    ELSE CHOOSE e \in {score[i].score.e : i \in 1..Len(score)} :
            \A i \in 1..Len(score) : score[i].score.e <= e

RECURSIVE ScaledTotal(_)
ScaledTotal(n) ==
    IF n = 0 THEN 0
    ELSE ScaledTotal(n - 1)
            + score[n].score.m * Pow10(MaxFractionDigits - score[n].score.e)

\* C12: whenever the results block is rendered the results are non-empty, so
\* the average is never the 0 of the empty case: it is the sum of the scores
\* of all results divided by their number.
C12_AverageIsMean ==
    results_shown =>
        /\ score # <<>>
        /\ ShownAverage.den > 0
        /\ ShownAverage.num * Len(score) * Pow10(MaxFractionDigits)
               = ShownAverage.den * ScaledTotal(Len(score))

C12_Witness ==
    /\ results_shown /\ Len(score) = 3
    /\ score[1].score = Decimal(9, 0) /\ score[2].score = Decimal(7, 0)
    /\ score[3].score = Decimal(9, 0)
    /\ ShownAverage = [num |-> 25, den |-> 3]

\* A run started and continued with num_questions = 2, mode Behavioral and an
\* empty domain.
InExample ==
    /\ num_questions = 2 /\ mode = "Behavioral" /\ domain = ""
    /\ run.active /\ run.steady /\ run.fixed

\* C13: with num_questions = 2, mode Behavioral and an empty domain, start
\* presents "Tell me about yourself."; after a submit of a non-empty answer
\* asked = 1 and the question is "What's your greatest professional
\* strength?"; after the skip that follows asked = 2, no question is pending,
\* the summary is shown for the one result and the average is its score.
C13_Example ==
    InExample =>
        /\ (run.subs = 0 /\ run.skips = 0) =>
                /\ asked = 0
                /\ score = <<>>
                /\ question = "Tell me about yourself."
        /\ (run.subs = 1 /\ run.skips = 0) =>
                /\ asked = 1
                /\ Len(score) = 1
                /\ \A i \in 1..Len(score) : score[i].question = "Tell me about yourself."
                /\ question = "What's your greatest professional strength?"
        /\ (run.subs = 1 /\ run.skips = 1) =>
                /\ asked = 2
                /\ question = None
                /\ Len(score) = 1
                /\ results_shown
                /\ \A i \in 1..Len(score) :
                        ShownAverage = Fraction(score[i].score.m, Pow10(score[i].score.e))

C13_Witness ==
    /\ InExample /\ run.subs = 1 /\ run.skips = 1
    /\ last.kind = "skip" /\ last.pre.n = 1
    /\ Len(score) = 1
    /\ score[1].question = "Tell me about yourself."
    /\ score[1].answer = "I am diligent."
    /\ ShownAverage = [num |-> 9, den |-> 1]

\* C14: the generated question is a function of the domain, the mode and the
\* count, and it is 5-periodic in the count: the question generated for asked
\* is the question for asked + 5.
C14_Periodic ==
    question # None =>
        /\ question = generate_question(role, domain, mode, asked + 5)
        /\ \A r \in Roles : question = generate_question(r, domain, mode, asked)

C14_Witness ==
    /\ asked = 6 /\ mode = "Behavioral" /\ domain = "Go"
    /\ question = "What's your greatest professional strength? (Related to Go)"

\* sub occurs in text at or after position i.
RECURSIVE OccursFrom(_, _, _)
OccursFrom(text, sub, i) ==
    IF i + Len(sub) - 1 > Len(text) THEN FALSE
    ELSE IF \A k \in 1..Len(sub) : Char(text, i + k - 1) = Char(sub, k) THEN TRUE
    ELSE OccursFrom(text, sub, i + 1)

\* The selected template as rendered, before any suffix.
Rendered == question_templates(domain)[mode][(asked % NumTemplates) + 1]
Suffixed == Rendered \o " (Related to " \o domain \o ")"

\* C16: the suffix " (Related to <domain>)" is appended to the rendered
\* template exactly when the domain is non-empty and the rendered text does
\* not contain "domain" (case-sensitive); with an empty domain nothing is
\* suffixed, and a Technical template that interpolated the domain is
\* suffixed unless the domain itself contains "domain".
C16_Suffix ==
    question # None =>
        /\ question \in {Rendered, Suffixed}
        /\ question = Suffixed <=> (domain # "" /\ ~OccursFrom(Rendered, "domain", 1))
        /\ domain = "" => question = Rendered
        /\ (mode = "Technical" /\ domain # "" /\ OccursFrom(Rendered, domain, 1)
                /\ asked % NumTemplates < 4) =>
              (question = Suffixed <=> ~OccursFrom(domain, "domain", 1))

C16_Witness ==
    /\ mode = "Technical" /\ domain = "Domain design" /\ asked = 1
    /\ question = "Describe a simple Domain design project you've worked on. (Related to Domain design)"

\* Reference readings of the score pattern, stated on positions of the text
\* instead of by scanning.

\* The capital of a letter of the pattern.
Capital(c) ==
    CASE c = "s" -> "S" [] c = "c" -> "C" [] c = "o" -> "O" [] c = "r" -> "R"
      [] c = "e" -> "E" [] c = "u" -> "U" [] c = "t" -> "T" [] c = "f" -> "F"
      [] OTHER -> c

\* The letters of lit, in either case, stand at position i of text.
LitAt(text, i, lit) ==
    /\ i >= 1
    /\ i + Len(lit) - 1 <= Len(text)
    /\ \A k \in 1..Len(lit) :
          Char(text, i + k - 1) \in {Char(lit, k), Capital(Char(lit, k))}

AllSpace(text, i, j) == \A k \in i..j : IsSpace(Char(text, k))
AllDigits(text, i, j) == i <= j /\ \A k \in i..j : IsDigit(Char(text, k))

\* text[i..j] is a number: digits, or digits "." digits.
IsNumeral(text, i, j) ==
    \/ AllDigits(text, i, j)
    \/ \E d \in (i + 1)..(j - 1) :
          /\ Char(text, d) = "."
          /\ AllDigits(text, i, d - 1)
          /\ AllDigits(text, d + 1, j)

\* Positions q from i on with only whitespace between i and q.
AfterSpace(text, i) == {q \in i..(Len(text) + 1) : AllSpace(text, i, q - 1)}

\* The stated reading: "Score:", a number, optional whitespace, then
\* "/10" or "out of 10".  The spans [p, g] of the number for an occurrence
\* that begins at s.
StatedSpans(text, s) ==
    IF ~LitAt(text, s, "score:") THEN {}
    ELSE { pg \in AfterSpace(text, s + 6) \X (1..Len(text)) :
             /\ pg[1] <= pg[2]
             /\ IsNumeral(text, pg[1], pg[2])
             /\ \E a \in AfterSpace(text, pg[2] + 1) :
                   \/ LitAt(text, a, "/10")
                   \/ LitAt(text, a, "out of 10") }

\* The reading the pattern of the code has: whitespace is also allowed after
\* the "/", around "out" and "of" (none is needed between them) and before
\* the "10".
PatternSpans(text, s) ==
    IF ~LitAt(text, s, "score:") THEN {}
    ELSE { pg \in AfterSpace(text, s + 6) \X (1..Len(text)) :
             /\ pg[1] <= pg[2]
             /\ IsNumeral(text, pg[1], pg[2])
             /\ \E a \in AfterSpace(text, pg[2] + 1) :
                   \/ /\ LitAt(text, a, "/")
                      /\ \E c \in AfterSpace(text, a + 1) : LitAt(text, c, "10")
                   \/ /\ LitAt(text, a, "out")
                      /\ \E m \in AfterSpace(text, a + 3) :
                            /\ LitAt(text, m, "of")
                            /\ \E c \in AfterSpace(text, m + 2) : LitAt(text, c, "10") }

\* The greedy spans of the leftmost occurrence: the others are cut short of a
\* digit the pattern cannot step over.
LongestSpanValues(text, spans) ==
    { ToFloat(SubSeq(text, pg[1], pg[2])) :
        pg \in {x \in spans : \A y \in spans : y[2] <= x[2]} }

StatedScores(text) ==
    LET starts == {s \in 1..Len(text) : StatedSpans(text, s) # {}}
    IN  IF starts = {} THEN {Decimal(DefaultScore, 0)}
        ELSE LongestSpanValues(text,
                StatedSpans(text, CHOOSE i \in starts : \A j \in starts : i <= j))

PatternScores(text) ==
    LET starts == {s \in 1..Len(text) : PatternSpans(text, s) # {}}
    IN  IF starts = {} THEN {Decimal(DefaultScore, 0)}
        ELSE LongestSpanValues(text,
                PatternSpans(text, CHOOSE i \in starts : \A j \in starts : i <= j))

\* C15 as stated: the extracted score is the N of "Score: N/10" or
\* "Score: N out of 10" (any case, optional whitespace after the number) when
\* the feedback contains one, and 7 when it contains none.
C15_Original ==
    \A i \in 1..Len(score) : StatedScores(score[i].feedback) = {score[i].score}

\* C15 as amended: the extracted score is the N of the leftmost occurrence of
\* "Score:", optional whitespace, a number N, optional whitespace, "/" or
\* "out of" with optional whitespace around and inside it, optional
\* whitespace and "10" (any case), and 7 when there is no such occurrence.
C15_MatchesPattern ==
    \A i \in 1..Len(score) : PatternScores(score[i].feedback) = {score[i].score}

C15_Witness ==
    /\ Len(score) = 1
    /\ score[1].feedback = "Great. SCORE:\n7.5 OUT OF 10 Score: 2/10"
    /\ score[1].score = Decimal(75, 1)

\* The step is a submit of a non-empty answer or a skip.
AnswersOrSkips ==
    \/ last'.kind = "skip"
    \/ last'.kind = "submit" /\ ~IsBlank(last'.answer)

\* C17: a run ends within 5 answered or skipped questions whatever is done to
\* the slider: asked never exceeds 5, a question is pending only while
\* asked < 5, and each submit of a non-empty answer and each skip adds one to
\* asked, so no question is pending after 5 - asked of them.
C17_EndsWithinFive ==
    /\ [](asked <= SliderMax /\ (question # None => asked < SliderMax))
    /\ [][AnswersOrSkips => (question # None /\ asked' = asked + 1)]_vars

C17_Witness ==
    /\ asked = SliderMax /\ question = None
    /\ run.active /\ ~run.steady
    /\ last.kind \in {"submit", "skip"}

\* C18: the session state is changed only by a submit of a non-empty answer, a
\* skip, Start Practice with no question pending, Reset and Practice Again;
\* a change of role, domain, mode or slider, and Start Practice with a
\* question pending, leave question, asked and the results as they are.
C18_Frame ==
    [][/\ (\/ last'.kind \in {"role", "domain", "mode", "slider"}
           \/ last'.kind = "start" /\ question # None)
          => session' = session
       /\ session' # session
          => \/ AnswersOrSkips
             \/ last'.kind = "start" /\ question = None
             \/ last'.kind \in {"reset", "again"}]_vars

C18_Witness ==
    /\ last.kind = "mode" /\ last.pre.pending /\ last.pre.asked > 0
    /\ question # None /\ question \notin PresentedAt(asked)

\* C19: in a run with mode and domain left alone a question is pending only
\* with asked < 5, so the index never wraps: the pending question is the one
\* of template index asked (the question number less one), the five questions
\* of the run differ from each other, and so do the questions of the results
\* and the pending one.
C19_NoWrap ==
    (run.active /\ run.fixed) =>
        /\ question # None =>
              /\ asked < NumTemplates
              /\ question \in
                   {question_templates(domain)[mode][asked + 1],
                    question_templates(domain)[mode][asked + 1]
                        \o " (Related to " \o domain \o ")"}
              /\ \A i \in 1..Len(score) : score[i].question # question
        /\ \A i, j \in 1..Len(score) :
              i # j => score[i].question # score[j].question
        /\ \A a, b \in 0..(NumTemplates - 1) :
              a # b => generate_question(role, domain, mode, a)
                          # generate_question(role, domain, mode, b)

C19_Witness ==
    /\ run.active /\ run.fixed /\ asked = 4 /\ question # None
    /\ Len(score) = 3 /\ domain = "Go"
    /\ question = "Tell me about your most recent technical project. (Related to Go)"

====
